---------------------------- MODULE Spec2Model ----------------------------
(***************************************************************************)
(* Model of linux.py ("Linux Command Explorer"): the command discoverer    *)
(* get_bin_commands, the executor run_command_safe, the help lookup        *)
(* get_command_help and the Streamlit handlers that call them.             *)
(*                                                                         *)
(* Texts (command lines, captured output, messages) are sequences of       *)
(* pieces.  Command lines and file names are written one character per     *)
(* piece; a fixed message of the program is written as one piece.          *)
(***************************************************************************)
EXTENDS Integers, Sequences, FiniteSets, TLC

VARIABLES
  fs,         \* the file system seen by the discoverer
  commands,   \* st.session_state.commands
  loading,    \* st.session_state.loading
  safe_mode,  \* the "Safe mode" checkbox
  pc,         \* "ready" or "done" for a single call, "ui" for a session
  command,    \* the command line (or command name) of the call
  env,        \* how the command of the call behaves
  henv,       \* how the three help attempts behave
  result,     \* the triple returned by run_command_safe
  help_text,  \* the text returned by get_command_help
  raised,     \* the exception that left the call, or "none"
  handed,     \* the command lines handed to the shell by the call
  started,    \* the processes started by the call
  procs,      \* the processes of the call still running when it returned
  shown,      \* the texts the page shows after the script run
  last,       \* record of the latest Execute click
  prev        \* record of the Execute click before it

vars == <<fs, commands, loading, safe_mode, pc, command, env, henv, result,
          help_text, raised, handed, started, procs, shown, last, prev>>

-----------------------------------------------------------------------------
(* Bounds of the model *)

\* largest number of whitespace characters put in front of a command line
MaxPad == 1

\* largest number of directory entries in the modelled file system
MaxEntries == 2

-----------------------------------------------------------------------------
(* Text helpers: str.split(), str.strip(), decoding *)

Whitespace == {" ", "\t", "\n"}

\* a byte that is not valid in the locale's encoding
BadByte == "\\xff"

RECURSIVE SplitFrom(_, _, _, _)
SplitFrom(s, i, cur, acc) ==
  IF i > Len(s)
    THEN IF cur = <<>> THEN acc ELSE Append(acc, cur)
    ELSE IF s[i] \in Whitespace
           THEN SplitFrom(s, i + 1, <<>>, IF cur = <<>> THEN acc ELSE Append(acc, cur))
           ELSE SplitFrom(s, i + 1, Append(cur, s[i]), acc)

\* command.split(): the maximal runs of non-whitespace, in order
split(s) == SplitFrom(s, 1, <<>>, <<>>)

\* s.strip() is non-empty: some character of s is not whitespace
StripNonEmpty(s) == \E i \in 1..Len(s) : s[i] \notin Whitespace

\* text=True: the captured bytes decode unless they hold an invalid byte
Decodable(b) == \A i \in 1..Len(b) : b[i] # BadByte

-----------------------------------------------------------------------------
(* run_command_safe: tables *)

dangerous_commands ==
  { <<"r","m">>, <<"r","m","d","i","r">>, <<"d","e","l">>,
    <<"f","o","r","m","a","t">>, <<"f","d","i","s","k">>, <<"m","k","f","s">>,
    <<"d","d">>, <<"s","h","r","e","d">>, <<"w","i","p","e">>,
    <<"h","a","l","t">>, <<"s","h","u","t","d","o","w","n">>,
    <<"r","e","b","o","o","t">>, <<"i","n","i","t">>, <<"k","i","l","l">>,
    <<"k","i","l","l","a","l","l">>, <<"p","k","i","l","l">>,
    <<"f","u","s","e","r">> }

safe_keys ==
  { <<"l","s">>, <<"p","s">>, <<"d","f">>, <<"d","u">>, <<"f","r","e","e">>,
    <<"t","o","p">>, <<"n","e","t","s","t","a","t">>, <<"s","s">> }

safe_commands(k) ==
  CASE k = <<"l","s">> -> <<"l","s"," ","-","l","a">>
    [] k = <<"p","s">> -> <<"p","s"," ","a","u","x">>
    [] k = <<"d","f">> -> <<"d","f"," ","-","h">>
    [] k = <<"d","u">> ->
         <<"d","u"," ","-","h"," ","-","-","m","a","x","-","d","e","p","t","h","=","1">>
    [] k = <<"f","r","e","e">> -> <<"f","r","e","e"," ","-","h">>
    [] k = <<"t","o","p">> -> <<"t","o","p"," ","-","b"," ","-","n","1">>
    [] k = <<"n","e","t","s","t","a","t">> ->
         <<"n","e","t","s","t","a","t"," ","-","t","u","l","n">>
    [] k = <<"s","s">> -> <<"s","s"," ","-","t","u","l","n">>

MsgBlocked  == <<"Command blocked for safety reasons">>
MsgTimedOut == <<"Command timed out">>
MsgErrorPfx == <<"Error: ">>
MsgIndex    == <<"list index out of range">>
MsgOSError  == <<"[Errno 11] Resource temporarily unavailable">>
MsgDecode   == <<"'utf-8' codec can't decode byte 0xff">>
MsgNoHelp   == <<"No help information available">>


-----------------------------------------------------------------------------
(* The process layer: what subprocess.run(cmd, shell=True,                 *)
(* capture_output=True, text=True, timeout=t) does with one command.       *)
(* The behaviour of the command is an input e:                             *)
(*   spawn     whether the shell can be started                            *)
(*   shellDur  how long the shell runs                                     *)
(*   child     0, or how long a process the shell started keeps running    *)
(*             (it inherits the output pipes)                              *)
(*   rc, out, err   exit status and the bytes written                      *)

Durations == {1, 7, 12}
Outputs   == { <<>>, <<"\n">>, <<"t","x","t">>, <<BadByte>> }

Envs == [spawn : BOOLEAN, shellDur : Durations, child : {0} \cup Durations,
         rc : {0, 1}, out : Outputs, err : Outputs]

\* the moment both pipes reach end of file: every holder has exited
CloseTime(e) == IF e.child > e.shellDur THEN e.child ELSE e.shellDur

Started(e) == IF e.child = 0 THEN {"shell"} ELSE {"shell", "child"}

\* run() kills and reaps the shell only; a longer-lived child stays
subprocess_run(cmd, timeout, e) ==
  IF ~e.spawn
    THEN [exc |-> "OSError", msg |-> MsgOSError, rc |-> 0,
          stdout |-> <<>>, stderr |-> <<>>, started |-> {}, left |-> {}]
    ELSE IF CloseTime(e) < timeout
      THEN IF Decodable(e.out) /\ Decodable(e.err)
             THEN [exc |-> "none", msg |-> <<>>, rc |-> e.rc,
                   stdout |-> e.out, stderr |-> e.err,
                   started |-> Started(e), left |-> {}]
             ELSE [exc |-> "UnicodeDecodeError", msg |-> MsgDecode, rc |-> 0,
                   stdout |-> <<>>, stderr |-> <<>>,
                   started |-> Started(e), left |-> {}]
      ELSE [exc |-> "TimeoutExpired", msg |-> MsgTimedOut, rc |-> 0,
            stdout |-> <<>>, stderr |-> <<>>, started |-> Started(e),
            left |-> IF e.child > timeout THEN {"child"} ELSE {}]

-----------------------------------------------------------------------------
(* run_command_safe *)

ExecTimeout == 10

\* variant: the whole command line, not its first token, is looked up in the denylist
run_command_try_whole_line(cmd, timeout, e) ==
  LET toks == split(cmd) IN
  IF toks = <<>>
    THEN [exc |-> "IndexError", msg |-> MsgIndex, ret |-> <<FALSE, <<>>, <<>>>>,
          handed |-> <<>>, started |-> {}, left |-> {}]
    ELSE
      LET base_cmd == toks[1] IN
      IF cmd \in dangerous_commands
        THEN [exc |-> "none", msg |-> <<>>, ret |-> <<FALSE, MsgBlocked, <<>>>>,
              handed |-> <<>>, started |-> {}, left |-> {}]
        ELSE
          LET cmd2 == IF base_cmd \in safe_keys /\ cmd = base_cmd
                        THEN safe_commands(base_cmd) ELSE cmd
              r    == subprocess_run(cmd2, timeout, e)
          IN  [exc |-> r.exc, msg |-> r.msg,
               ret |-> <<TRUE, r.stdout, r.stderr>>,
               handed |-> <<cmd2>>, started |-> r.started, left |-> r.left]

\* variant: the mapping is applied whenever the first token is a key
run_command_try_always_map(cmd, timeout, e) ==
  LET toks == split(cmd) IN
  IF toks = <<>>
    THEN [exc |-> "IndexError", msg |-> MsgIndex, ret |-> <<FALSE, <<>>, <<>>>>,
          handed |-> <<>>, started |-> {}, left |-> {}]
    ELSE
      LET base_cmd == toks[1] IN
      IF base_cmd \in dangerous_commands
        THEN [exc |-> "none", msg |-> <<>>, ret |-> <<FALSE, MsgBlocked, <<>>>>,
              handed |-> <<>>, started |-> {}, left |-> {}]
        ELSE
          LET cmd2 == IF base_cmd \in safe_keys
                        THEN safe_commands(base_cmd) ELSE cmd
              r    == subprocess_run(cmd2, timeout, e)
          IN  [exc |-> r.exc, msg |-> r.msg,
               ret |-> <<TRUE, r.stdout, r.stderr>>,
               handed |-> <<cmd2>>, started |-> r.started, left |-> r.left]

\* the try block: the value returned, or the exception that leaves it
run_command_try(cmd, timeout, e) ==
  LET toks == split(cmd) IN
  IF toks = <<>>
    THEN [exc |-> "IndexError", msg |-> MsgIndex, ret |-> <<FALSE, <<>>, <<>>>>,
          handed |-> <<>>, started |-> {}, left |-> {}]
    ELSE
      LET base_cmd == toks[1] IN
      IF base_cmd \in dangerous_commands
        THEN [exc |-> "none", msg |-> <<>>, ret |-> <<FALSE, MsgBlocked, <<>>>>,
              handed |-> <<>>, started |-> {}, left |-> {}]
        ELSE
          LET cmd2 == IF base_cmd \in safe_keys /\ cmd = base_cmd
                        THEN safe_commands(base_cmd) ELSE cmd
              r    == subprocess_run(cmd2, timeout, e)
          IN  [exc |-> r.exc, msg |-> r.msg,
               ret |-> <<TRUE, r.stdout, r.stderr>>,
               handed |-> <<cmd2>>, started |-> r.started, left |-> r.left]

\* the exceptions of the model; each is a subclass of Exception
ExceptionClasses ==
  {"IndexError", "OSError", "UnicodeDecodeError", "TimeoutExpired",
   "PermissionError"}

\* variant: only TimeoutExpired is caught
run_command_safe_timeout_only(cmd, timeout, e) ==
  LET b == run_command_try(cmd, timeout, e) IN
  CASE b.exc = "none" ->
         [raised |-> "none", ret |-> b.ret,
          handed |-> b.handed, started |-> b.started, left |-> b.left]
    [] b.exc = "TimeoutExpired" ->
         [raised |-> "none", ret |-> <<FALSE, <<>>, MsgTimedOut>>,
          handed |-> b.handed, started |-> b.started, left |-> b.left]
    [] OTHER ->
         [raised |-> b.exc, ret |-> <<FALSE, <<>>, <<>>>>,
          handed |-> b.handed, started |-> b.started, left |-> b.left]

\* the except clauses: TimeoutExpired first, then every other Exception
run_command_safe(cmd, timeout, e) ==
  LET b == run_command_try(cmd, timeout, e) IN
  CASE b.exc = "none" ->
         [raised |-> "none", ret |-> b.ret,
          handed |-> b.handed, started |-> b.started, left |-> b.left]
    [] b.exc = "TimeoutExpired" ->
         [raised |-> "none", ret |-> <<FALSE, <<>>, MsgTimedOut>>,
          handed |-> b.handed, started |-> b.started, left |-> b.left]
    [] b.exc \in ExceptionClasses ->
         [raised |-> "none", ret |-> <<FALSE, <<>>, MsgErrorPfx \o b.msg>>,
          handed |-> b.handed, started |-> b.started, left |-> b.left]
    [] OTHER ->
         [raised |-> b.exc, ret |-> <<FALSE, <<>>, <<>>>>,
          handed |-> b.handed, started |-> b.started, left |-> b.left]


-----------------------------------------------------------------------------
(* get_bin_commands *)

bin_paths == <<"/bin", "/usr/bin", "/usr/local/bin", "/sbin", "/usr/sbin">>

Dirs == {bin_paths[i] : i \in 1..Len(bin_paths)}

\* the characters of file names, in code point order
Alphabet == <<"-", "a", "b", "c", "l", "m", "r", "s", "t">>

Ord(c) == CHOOSE i \in 1..Len(Alphabet) : Alphabet[i] = c

\* Python's order on str: the first differing code point, or a proper prefix
LexLess(a, b) ==
  \E k \in 1..Len(b) :
     /\ k <= Len(a) + 1
     /\ \A j \in 1..(k - 1) : a[j] = b[j]
     /\ \/ k = Len(a) + 1
        \/ Ord(a[k]) < Ord(b[k])

RECURSIVE sorted(_)
sorted(S) ==
  IF S = {} THEN <<>>
  ELSE LET m == CHOOSE x \in S : \A y \in S : x = y \/ LexLess(x, y)
       IN  <<m>> \o sorted(S \ {m})

\* a directory entry is <<directory, name, kind>>
Kinds == {"xfile", "file", "xdir"}

exists(f, d)      == f.state[d] # "missing"
isfile(f, d, n)   == \E e \in f.entries : e[1] = d /\ e[2] = n /\ e[3] \in {"xfile", "file"}
access_x(f, d, n) == \E e \in f.entries : e[1] = d /\ e[2] = n /\ e[3] \in {"xfile", "xdir"}

listdir(f, d) ==
  IF f.state[d] = "denied"
    THEN [exc |-> "PermissionError", items |-> {}]
    ELSE [exc |-> "none", items |-> {e[2] : e \in {x \in f.entries : x[1] = d}}]

\* variant: PermissionError is not caught
RECURSIVE scan_no_except(_, _, _)
scan_no_except(f, i, acc) ==
  IF i > Len(bin_paths) THEN [exc |-> "none", set |-> acc]
  ELSE LET d == bin_paths[i] IN
       IF ~exists(f, d) THEN scan_no_except(f, i + 1, acc)
       ELSE LET l == listdir(f, d) IN
            IF l.exc # "none" THEN [exc |-> l.exc, set |-> acc]
            ELSE scan_no_except(f, i + 1,
                      acc \cup {n \in l.items : isfile(f, d, n) /\ access_x(f, d, n)})

\* variant: the entry is not tested for being a regular file
RECURSIVE scan_no_isfile(_, _, _)
scan_no_isfile(f, i, acc) ==
  IF i > Len(bin_paths) THEN [exc |-> "none", set |-> acc]
  ELSE LET d == bin_paths[i] IN
       IF ~exists(f, d) THEN scan_no_isfile(f, i + 1, acc)
       ELSE LET l == listdir(f, d) IN
            IF l.exc = "PermissionError" THEN scan_no_isfile(f, i + 1, acc)
            ELSE IF l.exc # "none" THEN [exc |-> l.exc, set |-> acc]
            ELSE scan_no_isfile(f, i + 1,
                      acc \cup {n \in l.items : access_x(f, d, n)})

RECURSIVE scan(_, _, _)
scan(f, i, acc) ==
  IF i > Len(bin_paths) THEN [exc |-> "none", set |-> acc]
  ELSE LET d == bin_paths[i] IN
       IF ~exists(f, d) THEN scan(f, i + 1, acc)
       ELSE LET l == listdir(f, d) IN
            IF l.exc = "PermissionError" THEN scan(f, i + 1, acc)
            ELSE IF l.exc # "none" THEN [exc |-> l.exc, set |-> acc]
            ELSE scan(f, i + 1,
                      acc \cup {n \in l.items : isfile(f, d, n) /\ access_x(f, d, n)})

get_bin_commands(f) ==
  LET r == scan(f, 1, {}) IN
  IF r.exc = "none" THEN [raised |-> "none", ret |-> sorted(r.set)]
                    ELSE [raised |-> r.exc, ret |-> <<>>]


-----------------------------------------------------------------------------
(* get_command_help *)

HelpTimeout == 5

help_options == << <<"-","-","h","e","l","p">>, <<"-","h">>, <<"h","e","l","p">> >>

help_cmd(cmd, help_opt) ==
  IF help_opt = <<"h","e","l","p">>
    THEN <<"h","e","l","p"," ">> \o cmd
    ELSE cmd \o <<" ">> \o help_opt

\* variant: the exit status of the attempt is not looked at
RECURSIVE help_from_no_rc(_, _, _, _, _)
help_from_no_rc(cmd, es, i, hs, left) ==
  IF i > Len(help_options)
    THEN [ret |-> MsgNoHelp, handed |-> hs, left |-> left, at |-> 0]
    ELSE
      LET c  == help_cmd(cmd, help_options[i])
          r  == subprocess_run(c, HelpTimeout, es[i])
          h2 == Append(hs, c)
          l2 == left \cup {<<i, p>> : p \in r.left}
      IN  IF r.exc # "none"
            THEN help_from_no_rc(cmd, es, i + 1, h2, l2)
            ELSE IF StripNonEmpty(r.stdout)
              THEN [ret |-> r.stdout, handed |-> h2, left |-> l2, at |-> i]
              ELSE IF StripNonEmpty(r.stderr)
                THEN [ret |-> r.stderr, handed |-> h2, left |-> l2, at |-> i]
                ELSE help_from_no_rc(cmd, es, i + 1, h2, l2)

\* attempt i and the ones after it; hs are the command lines handed so far
RECURSIVE help_from(_, _, _, _, _)
help_from(cmd, es, i, hs, left) ==
  IF i > Len(help_options)
    THEN [ret |-> MsgNoHelp, handed |-> hs, left |-> left, at |-> 0]
    ELSE
      LET c  == help_cmd(cmd, help_options[i])
          r  == subprocess_run(c, HelpTimeout, es[i])
          h2 == Append(hs, c)
          l2 == left \cup {<<i, p>> : p \in r.left}
      IN  IF r.exc # "none"
            THEN help_from(cmd, es, i + 1, h2, l2)
            ELSE IF r.rc = 0 /\ StripNonEmpty(r.stdout)
              THEN [ret |-> r.stdout, handed |-> h2, left |-> l2, at |-> i]
              ELSE IF StripNonEmpty(r.stderr)
                THEN [ret |-> r.stderr, handed |-> h2, left |-> l2, at |-> i]
                ELSE help_from(cmd, es, i + 1, h2, l2)

get_command_help(cmd, es) == help_from(cmd, es, 1, <<>>, {})


-----------------------------------------------------------------------------
(* The Streamlit script: what one run of it does for each button *)

RECURSIVE lstrip(_)
lstrip(s) == IF s # <<>> /\ Head(s) \in Whitespace THEN lstrip(Tail(s)) ELSE s

RECURSIVE rstrip(_)
rstrip(s) ==
  IF s # <<>> /\ s[Len(s)] \in Whitespace THEN rstrip(SubSeq(s, 1, Len(s) - 1)) ELSE s

strip(s) == rstrip(lstrip(s))

\* full_command = selected_command, plus " " and the stripped arguments
full_command(selected_command, custom_args) ==
  IF strip(custom_args) # <<>>
    THEN selected_command \o <<" ">> \o strip(custom_args)
    ELSE selected_command

\* variant: with Safe mode unchecked the command line goes straight to the shell
execute_clicked_unsafe(full, safe, e) ==
  IF safe THEN run_command_safe(full, ExecTimeout, e)
  ELSE LET r == subprocess_run(full, ExecTimeout, e) IN
       [raised |-> "none",
        ret |-> IF r.exc = "none" THEN <<TRUE, r.stdout, r.stderr>>
                                  ELSE <<FALSE, <<>>, MsgErrorPfx \o r.msg>>,
        handed |-> <<full>>, started |-> r.started, left |-> r.left]

\* the Execute button calls the executor whatever the Safe mode checkbox says
execute_clicked(full, safe, e) == run_command_safe(full, ExecTimeout, e)

\* what the page shows for the triple (success, stdout, stderr)
render_execute(ret) ==
  IF ret[1]
    THEN (IF ret[2] # <<>>
            THEN << <<"Output:">>, ret[2] >>
            ELSE << <<"Command executed successfully (no output)">> >>)
         \o (IF ret[3] # <<>> THEN << <<"Warnings/Errors:">>, ret[3] >> ELSE <<>>)
    ELSE << <<"Command failed: ">> \o ret[3] >>

render_quick(ret) == IF ret[1] /\ ret[2] # <<>> THEN <<ret[2]>> ELSE <<>>

quick_actions ==
  { <<"l","s"," ","-","l","a">>, <<"d","f"," ","-","h">>,
    <<"p","s"," ","a","u","x"," ","|"," ","h","e","a","d"," ","-","1","0">> }

-----------------------------------------------------------------------------
(* Inputs *)

RECURSIVE Pad(_)
Pad(n) == IF n = 0 THEN <<>> ELSE <<" ">> \o Pad(n - 1)

ExecNames ==
  dangerous_commands \cup safe_keys \cup { <<"c","a","t">>, <<"r","m","x">>, <<"r">> }

Suffixes == { <<>>, <<" ">>, <<" ","x">>, <<"\t","-","l">>, <<";","x">> }

\* every name with every suffix behind some padding, and the blank lines
CommandLines ==
  {Pad(n) \o nm \o sf : n \in 0..MaxPad, nm \in ExecNames, sf \in Suffixes}
    \cup {Pad(n) : n \in 0..MaxPad}

NoEnv == [spawn |-> TRUE, shellDur |-> 1, child |-> 0, rc |-> 0,
          out |-> <<>>, err |-> <<>>]

\* help attempts: one failed spawn, one timeout, every completed run
HelpEnvs ==
  {e \in Envs :
     /\ e.child = 0
     /\ e.shellDur \in {1, 7}
     /\ (~e.spawn => e = [NoEnv EXCEPT !.spawn = FALSE])
     /\ (e.shellDur = 7 => e = [NoEnv EXCEPT !.shellDur = 7])}

HelpNames == { <<"l","s">>, <<"r","m">> }

Names == { <<"b">>, <<"a","b">> }

RECURSIVE SubsetsUpTo(_, _)
SubsetsUpTo(S, k) ==
  IF k = 0 THEN {{}}
  ELSE LET P == SubsetsUpTo(S, k - 1) IN P \cup {p \cup {x} : p \in P, x \in S}

\* the file systems of the bounds: up to MaxEntries names placed in
\* directories that exist, each with one kind
DirStates == [Dirs -> {"missing", "denied", "listable"}]

Placements == SubsetsUpTo(Dirs \X Names, MaxEntries)

MakeFs(st, ss, k) ==
  [state |-> st, entries |-> {<<sl[1], sl[2], k[sl]>> : sl \in ss}]

NoFs == [state |-> [d \in Dirs |-> "missing"], entries |-> {}]

UiEntries ==
  { <<"/bin", <<"r","m">>, "xfile">>, <<"/bin", <<"l","s">>, "xfile">>,
    <<"/usr/bin", <<"c","a","t">>, "xfile">> }

UiFsStates ==
  {[state |-> [d \in Dirs |-> "listable"], entries |-> en] : en \in SUBSET UiEntries}

CustomArgs == { <<>>, <<" ">>, <<" ","-","l"," ">> }

\* one behaviour of each kind: no spawn, timeout, bad bytes, completed runs
UiEnvs ==
  {e \in Envs :
     /\ e.rc = 0 /\ e.child = 0 /\ e.shellDur \in {1, 12}
     /\ e.out \in { <<>>, <<"t","x","t">> }
     /\ e.err \in { <<>>, <<"t","x","t">>, <<BadByte>> }
     /\ (~e.spawn => e = [NoEnv EXCEPT !.spawn = FALSE])
     /\ (e.shellDur = 12 => e = [NoEnv EXCEPT !.shellDur = 12])
     /\ (e.err = <<BadByte>> => e = [NoEnv EXCEPT !.err = <<BadByte>>])}

UiHelpEnvs ==
  {e \in HelpEnvs : e.spawn /\ e.shellDur = 1 /\ e.rc = 0 /\ e.err = <<>>
                    /\ e.out \in { <<>>, <<"t","x","t">> }}

NoClick == [valid |-> FALSE, cmd |-> <<>>, safe |-> TRUE,
            decision |-> "none", handed |-> <<>>]

NoShown == [by |-> "none", texts |-> <<>>]


-----------------------------------------------------------------------------
(* A browser session *)

NoResult == <<FALSE, <<>>, <<>>>>

Init ==
  /\ fs \in UiFsStates
  /\ commands = <<>>
  /\ loading = TRUE
  /\ safe_mode = TRUE
  /\ pc = "ui"
  /\ command = <<>>
  /\ env = NoEnv
  /\ henv = [i \in 1..3 |-> NoEnv]
  /\ result = NoResult
  /\ help_text = <<>>
  /\ raised = "none"
  /\ handed = <<>>
  /\ started = {}
  /\ procs = {}
  /\ shown = NoShown
  /\ last = NoClick
  /\ prev = NoClick

\* "if st.session_state.loading": scan, store, clear the flag, rerun
LoadCommands ==
  /\ pc = "ui" /\ loading /\ raised = "none"
  /\ LET r == get_bin_commands(fs) IN
       /\ raised' = r.raised
       /\ commands' = IF r.raised = "none" THEN r.ret ELSE commands
       /\ loading' = (r.raised # "none")
  /\ shown' = NoShown
  /\ UNCHANGED <<fs, safe_mode, pc, command, env, henv, result, help_text,
                 handed, started, procs, last, prev>>

\* the "Refresh Commands" button
RefreshCommands ==
  /\ pc = "ui" /\ ~loading /\ raised = "none"
  /\ loading' = TRUE
  /\ shown' = NoShown
  /\ UNCHANGED <<fs, commands, safe_mode, pc, command, env, henv, result,
                 help_text, raised, handed, started, procs, last, prev>>

\* the "Safe mode (recommended)" checkbox
ToggleSafeMode ==
  /\ pc = "ui" /\ ~loading /\ raised = "none"
  /\ safe_mode' = ~safe_mode
  /\ shown' = NoShown
  /\ UNCHANGED <<fs, commands, loading, pc, command, env, henv, result,
                 help_text, raised, handed, started, procs, last, prev>>

\* the "Execute" button
ExecuteButton ==
  /\ pc = "ui" /\ ~loading /\ raised = "none"
  /\ \E i \in 1..Len(commands), custom_args \in CustomArgs, e \in UiEnvs :
       LET full == full_command(commands[i], custom_args)
           r    == execute_clicked(full, safe_mode, e)
       IN  /\ raised' = r.raised
           /\ shown' = [by |-> "execute",
                        texts |-> IF r.raised = "none" THEN render_execute(r.ret)
                                                       ELSE <<>>]
           /\ last' = [valid |-> TRUE, cmd |-> full, safe |-> safe_mode,
                       decision |-> IF r.handed = <<>> THEN "refused" ELSE "spawned",
                       handed |-> r.handed]
           /\ prev' = last
  /\ UNCHANGED <<fs, commands, loading, safe_mode, pc, command, env, henv,
                 result, help_text, handed, started, procs>>

\* the "Get Help" button
GetHelpButton ==
  /\ pc = "ui" /\ ~loading /\ raised = "none"
  /\ \E i \in 1..Len(commands), es \in [1..3 -> UiHelpEnvs] :
       LET r == get_command_help(commands[i], es) IN
         shown' = [by |-> "help", texts |-> << <<"Help Output:">>, r.ret >>]
  /\ UNCHANGED <<fs, commands, loading, safe_mode, pc, command, env, henv,
                 result, help_text, raised, handed, started, procs, last, prev>>

\* the three quick action buttons
QuickAction ==
  /\ pc = "ui" /\ ~loading /\ raised = "none" /\ commands # <<>>
  /\ \E q \in quick_actions, e \in UiEnvs :
       LET r == run_command_safe(q, ExecTimeout, e) IN
         /\ raised' = r.raised
         /\ shown' = [by |-> "quick", texts |-> render_quick(r.ret)]
  /\ UNCHANGED <<fs, commands, loading, safe_mode, pc, command, env, henv,
                 result, help_text, handed, started, procs, last, prev>>

Next ==
  \/ LoadCommands
  \/ RefreshCommands
  \/ ToggleSafeMode
  \/ ExecuteButton
  \/ GetHelpButton
  \/ QuickAction

Spec == Init /\ [][Next]_vars

-----------------------------------------------------------------------------
(* The discoverer on every file system of the bounds *)

InitDiscover ==
  /\ \E ss \in Placements :
       \E st \in {x \in DirStates : \A sl \in ss : x[sl[1]] # "missing"} :
          \E k \in [ss -> Kinds] : fs = MakeFs(st, ss, k)
  /\ commands = <<>>
  /\ loading = TRUE
  /\ safe_mode = TRUE
  /\ pc = "ui"
  /\ command = <<>>
  /\ env = NoEnv
  /\ henv = [i \in 1..3 |-> NoEnv]
  /\ result = NoResult
  /\ help_text = <<>>
  /\ raised = "none"
  /\ handed = <<>>
  /\ started = {}
  /\ procs = {}
  /\ shown = NoShown
  /\ last = NoClick
  /\ prev = NoClick

NextDiscover == LoadCommands \/ RefreshCommands

SpecDiscover == InitDiscover /\ [][NextDiscover]_vars

-----------------------------------------------------------------------------
(* One call of run_command_safe on every command line and behaviour *)

InitExec ==
  /\ fs = NoFs
  /\ commands = <<>>
  /\ loading = FALSE
  /\ safe_mode = TRUE
  /\ pc = "ready"
  /\ command \in CommandLines
  /\ env \in Envs
  /\ henv = [i \in 1..3 |-> NoEnv]
  /\ result = NoResult
  /\ help_text = <<>>
  /\ raised = "none"
  /\ handed = <<>>
  /\ started = {}
  /\ procs = {}
  /\ shown = NoShown
  /\ last = NoClick
  /\ prev = NoClick

Execute ==
  /\ pc = "ready"
  /\ LET r == run_command_safe(command, ExecTimeout, env) IN
       /\ result' = r.ret
       /\ raised' = r.raised
       /\ handed' = r.handed
       /\ started' = r.started
       /\ procs' = r.left
  /\ pc' = "done"
  /\ UNCHANGED <<fs, commands, loading, safe_mode, command, env, henv,
                 help_text, shown, last, prev>>

SpecExec == InitExec /\ [][Execute]_vars

-----------------------------------------------------------------------------
(* One call of get_command_help on every behaviour of the three attempts *)

InitHelp ==
  /\ fs = NoFs
  /\ commands = <<>>
  /\ loading = FALSE
  /\ safe_mode = TRUE
  /\ pc = "ready"
  /\ command \in HelpNames
  /\ env = NoEnv
  /\ henv \in [1..3 -> HelpEnvs]
  /\ result = NoResult
  /\ help_text = <<>>
  /\ raised = "none"
  /\ handed = <<>>
  /\ started = {}
  /\ procs = {}
  /\ shown = NoShown
  /\ last = NoClick
  /\ prev = NoClick

GetHelp ==
  /\ pc = "ready"
  /\ LET r == get_command_help(command, henv) IN
       /\ help_text' = r.ret
       /\ handed' = r.handed
  /\ pc' = "done"
  /\ UNCHANGED <<fs, commands, loading, safe_mode, command, env, henv,
                 result, raised, started, procs, shown, last, prev>>

SpecHelp == InitHelp /\ [][GetHelp]_vars


-----------------------------------------------------------------------------
(* Properties *)

\* the typed outcomes, read off the triple (success, stdout, stderr)
IsOk(r)      == r[1] = TRUE
IsRefused(r) == r[1] = FALSE /\ r[2] # <<>> /\ r[3] = <<>>
IsFailed(r)  == r[1] = FALSE /\ r[2] = <<>> /\ r[3] # <<>>

\* cmd is a denylist name, alone or followed by a space and anything
DenyForm(cmd) ==
  \E nm \in dangerous_commands :
     \/ cmd = nm
     \/ /\ Len(cmd) > Len(nm)
        /\ SubSeq(cmd, 1, Len(nm)) = nm
        /\ cmd[Len(nm) + 1] = " "

\* some shown text has m as a contiguous part
Contains(texts, m) ==
  \E i \in 1..Len(texts) :
     \E k \in 0..(Len(texts[i]) - Len(m)) :
        SubSeq(texts[i], k + 1, k + Len(m)) = m

\* C1: a denylist name, alone or followed by a space and any arguments, is
\* refused with "Command blocked for safety reasons", and the call starts no
\* process and hands nothing to the shell.
C1_DenylistRefuses ==
  (pc = "done" /\ DenyForm(command)) =>
     /\ result = <<FALSE, MsgBlocked, <<>>>>
     /\ raised = "none"
     /\ handed = <<>>
     /\ started = {}
     /\ procs = {}

C1_Witness ==
  /\ pc = "done"
  /\ command = <<"r","m"," ","x">>
  /\ env.spawn
  /\ result = <<FALSE, MsgBlocked, <<>>>>
  /\ started = {}

\* C2: when the shell has not terminated at the timeout, the call returns
\* Failed("Command timed out") and none of the processes it started is still
\* running at the return.
C2_TimeoutLeavesNoProcess ==
  (pc = "done" /\ handed # <<>> /\ env.spawn /\ env.shellDur >= ExecTimeout) =>
     /\ result = <<FALSE, <<>>, MsgTimedOut>>
     /\ procs = {}

\* what an attempt captured: nothing unless it completed and decoded
CapturedOut(e) ==
  IF e.spawn /\ CloseTime(e) < HelpTimeout /\ Decodable(e.out) /\ Decodable(e.err)
    THEN e.out ELSE <<>>

CapturedErr(e) ==
  IF e.spawn /\ CloseTime(e) < HelpTimeout /\ Decodable(e.out) /\ Decodable(e.err)
    THEN e.err ELSE <<>>

FirstIndex(S) == CHOOSE i \in S : \A j \in S : i <= j

ClaimedHelp(es) ==
  LET withOut == {i \in 1..3 : CapturedOut(es[i]) # <<>>}
      withErr == {i \in 1..3 : CapturedErr(es[i]) # <<>>}
  IN  IF withOut # {} THEN CapturedOut(es[FirstIndex(withOut)])
      ELSE IF withErr # {} THEN CapturedErr(es[FirstIndex(withErr)])
      ELSE MsgNoHelp

\* C3: the help lookup returns the stdout of the first attempt with non-empty
\* stdout; failing that the first non-empty stderr; failing that the fixed
\* "No help information available".
C3_HelpFirstStdoutThenStderr ==
  pc = "done" => help_text = ClaimedHelp(henv)

\* the three command lines of the lookup, in the order of the attempts
HelpLines(cmd) ==
  << cmd \o <<" ","-","-","h","e","l","p">>,
     cmd \o <<" ","-","h">>,
     <<"h","e","l","p"," ">> \o cmd >>

Completed(e) ==
  e.spawn /\ CloseTime(e) < HelpTimeout /\ Decodable(e.out) /\ Decodable(e.err)

GoodOut(e) == Completed(e) /\ e.rc = 0 /\ \E k \in 1..Len(e.out) : e.out[k] \notin Whitespace
GoodErr(e) == Completed(e) /\ \E k \in 1..Len(e.err) : e.err[k] \notin Whitespace

\* C3 (amended): the attempts run in the order --help, -h, help; the lookup
\* stops at the first attempt that completes with exit status 0 and non-blank
\* stdout (returning that stdout) or else with non-blank stderr (returning
\* that stderr); if no attempt does, it returns the fixed fallback after all
\* three attempts.
C3_HelpFirstUsableAttempt ==
  pc = "done" =>
    LET usable == {i \in 1..3 : GoodOut(henv[i]) \/ GoodErr(henv[i])} IN
    IF usable = {}
      THEN help_text = MsgNoHelp /\ handed = HelpLines(command)
      ELSE LET i == FirstIndex(usable) IN
           /\ help_text = IF GoodOut(henv[i]) THEN henv[i].out ELSE henv[i].err
           /\ handed = SubSeq(HelpLines(command), 1, i)

\* stdout of a failed first attempt is passed over and the fallback returned
C3_Witness ==
  /\ pc = "done"
  /\ henv[1].spawn /\ henv[1].shellDur = 1 /\ henv[1].rc = 1
  /\ henv[1].out = <<"t","x","t">> /\ henv[1].err = <<>>
  /\ henv[2].spawn /\ henv[2].shellDur = 1 /\ henv[2].rc = 0
  /\ henv[2].out = <<>> /\ henv[2].err = <<>>
  /\ ~henv[3].spawn
  /\ help_text = MsgNoHelp
  /\ Len(handed) = 3

\* C4: every call returns one of Ok, Refused, Failed and raises nothing; a
\* denylist hit is Refused, a timeout and a spawn failure are Failed.
C4_NeverRaises ==
  pc = "done" =>
     /\ raised = "none"
     /\ IsOk(result) \/ IsRefused(result) \/ IsFailed(result)
     /\ DenyForm(command) => IsRefused(result)
     /\ (handed # <<>> /\ ~env.spawn) => IsFailed(result)
     /\ (handed # <<>> /\ env.spawn /\ env.shellDur >= ExecTimeout) => IsFailed(result)

C4_Witness ==
  /\ pc = "done"
  /\ command = <<" ">>
  /\ raised = "none"
  /\ result = <<FALSE, <<>>, MsgErrorPfx \o MsgIndex>>

\* C5: a command line equal to a bare mapped name runs as the mapped form;
\* every other command line that is not refused reaches the shell unchanged.
C5_SafeFlagSubstitution ==
  pc = "done" =>
     /\ command \in safe_keys => handed = <<safe_commands(command)>>
     /\ (command \notin safe_keys /\ handed # <<>>) => handed = <<command>>

C5_Witness ==
  /\ pc = "done"
  /\ command = <<"l","s">>
  /\ handed = << <<"l","s"," ","-","l","a">> >>

InCatalog(n) == \E i \in 1..Len(commands) : commands[i] = n

\* C6: the scan never fails, whatever mix of missing, unlistable and listable
\* directories it meets, and the catalog holds the executables of the
\* directories it could list.
C6_DiscoverNeverFails ==
  /\ raised = "none"
  /\ ~loading =>
       \A d \in Dirs : \A n \in Names :
          (fs.state[d] = "listable" /\ <<d, n, "xfile">> \in fs.entries)
             => InCatalog(n)

C6_Witness ==
  /\ ~loading
  /\ raised = "none"
  /\ fs.state["/bin"] = "missing"
  /\ fs.state["/usr/bin"] = "denied"
  /\ <<"/usr/bin", <<"a","b">>, "xfile">> \in fs.entries
  /\ fs.state["/sbin"] = "listable"
  /\ commands = << <<"b">> >>

\* C7: the catalog is strictly increasing in the order of str (so sorted and
\* free of duplicates) and each of its names is a regular executable file in
\* some candidate directory.
C7_CatalogSortedDistinctExecutable ==
  ~loading =>
     /\ \A i, j \in 1..Len(commands) : i < j => LexLess(commands[i], commands[j])
     /\ \A i \in 1..Len(commands) :
           \E d \in Dirs : <<d, commands[i], "xfile">> \in fs.entries

C7_Witness ==
  /\ ~loading
  /\ commands = << <<"a","b">>, <<"b">> >>
  /\ <<"/bin", <<"b">>, "xfile">> \in fs.entries
  /\ <<"/usr/sbin", <<"a","b">>, "xfile">> \in fs.entries

\* C8: when the shell terminates by itself before the timeout the call
\* returns Ok with the captured stdout and stderr, whatever the exit status.
C8_NormalTerminationIsOk ==
  (pc = "done" /\ handed # <<>> /\ env.spawn /\ env.shellDur < ExecTimeout) =>
     result = <<TRUE, env.out, env.err>>

\* C9: after an Execute click on a refused command line the page shows the
\* text "Command blocked for safety reasons".
C9_RefusalShowsSafetyMessage ==
  (shown.by = "execute" /\ last.valid /\ last.decision = "refused") =>
     Contains(shown.texts, MsgBlocked)

\* C10: two Execute clicks on the same command line that differ in the Safe
\* mode checkbox reach the same decision and hand the same string to the
\* shell, and a denylist name is refused under either setting.
C10_SafeModeIrrelevant ==
  /\ (last.valid /\ prev.valid /\ last.cmd = prev.cmd /\ last.safe # prev.safe) =>
        (last.decision = prev.decision /\ last.handed = prev.handed)
  /\ (last.valid /\ DenyForm(last.cmd)) => last.decision = "refused"

C10_Witness ==
  /\ last.valid /\ prev.valid
  /\ last.cmd = <<"r","m"," ","-","l">>
  /\ prev.cmd = last.cmd
  /\ ~last.safe /\ prev.safe
  /\ last.decision = "refused" /\ prev.decision = "refused"

=============================================================================
